---------------------------- MODULE Spec2Model ----------------------------
(***************************************************************************)
(* makeKeyedData: a model of the two implementations of the repository,    *)
(* src/makeKeyedData.ts (Object.fromEntries over Object.entries) and       *)
(* src/unnamed/part_000 (Object.keys reduced with acc[key] = ...), over a   *)
(* heap of JavaScript objects.  An object is its own enumerable data       *)
(* properties, kept in own-property-key order (integer indices ascending,  *)
(* then strings in creation order), and its [[Prototype]].                 *)
(***************************************************************************)
EXTENDS Integers, Sequences, FiniteSets, TLC

VARIABLES heap, map, options, result, resultReduce, again, writes

vars == <<heap, map, options, result, resultReduce, again, writes>>

(***************************************************************************)
(* Bounds of the model.                                                    *)
(***************************************************************************)
MaxKeys == 2
MaxWrites == 1

(***************************************************************************)
(* JavaScript values.  Every value is a record of the same shape, so that  *)
(* any two values can be compared.                                         *)
(***************************************************************************)
Undefined == [t |-> "undefined", s |-> "", n |-> 0]
Null == [t |-> "null", s |-> "", n |-> 0]
Str(x) == [t |-> "string", s |-> x, n |-> 0]
Num(x) == [t |-> "number", s |-> "", n |-> x]
Bool(b) == [t |-> "boolean", s |-> "", n |-> IF b THEN 1 ELSE 0]
Ref(a) == [t |-> "object", s |-> "", n |-> a]
ObjectPrototype == [t |-> "object", s |-> "Object.prototype", n |-> 0]

IsRef(v) == v.t = "object" /\ v.n > 0
IsNullish(v) == v.t \in {"undefined", "null"}

(***************************************************************************)
(* Property keys.  The canonical numeric strings are array indices; they   *)
(* enumerate first, in ascending numeric order.                            *)
(***************************************************************************)
IndexNames == <<"0", "1", "2">>
IsIndex(k) == \E i \in 1..Len(IndexNames) : IndexNames[i] = k
IndexNum(k) == (CHOOSE i \in 1..Len(IndexNames) : IndexNames[i] = k) - 1

\* The code units of the strings the model uses as values.
Chars(s) ==
  CASE s = "" -> <<>>
    [] s = "ab" -> <<"a", "b">>
    [] s = "Foo" -> <<"F", "o", "o">>
    [] s = "Bar" -> <<"B", "a", "r">>
    [] s = "old" -> <<"o", "l", "d">>
    [] s = "new" -> <<"n", "e", "w">>
    [] s = "foo" -> <<"f", "o", "o">>
    [] s = "1" -> <<"1">>
    [] s = "id" -> <<"i", "d">>
    [] s = "baz" -> <<"b", "a", "z">>

(***************************************************************************)
(* Objects.                                                                *)
(***************************************************************************)
EmptyObject == [props |-> <<>>, proto |-> ObjectPrototype]

OwnKeys(o) == [i \in 1..Len(o.props) |-> o.props[i].k]
KeySet(o) == {o.props[i].k : i \in 1..Len(o.props)}
HasOwn(o, k) == k \in KeySet(o)
OwnValue(o, k) == o.props[CHOOSE i \in 1..Len(o.props) : o.props[i].k = k].v

\* CreateDataProperty: an existing property keeps its position and takes the
\* new value; a new one is placed in own-property-key order.
CreateDataProperty(o, k, v) ==
  IF HasOwn(o, k)
  THEN [o EXCEPT !.props = [i \in 1..Len(o.props) |->
                             IF o.props[i].k = k THEN [k |-> k, v |-> v]
                             ELSE o.props[i]]]
  ELSE LET n == Len(o.props)
           pos == IF IsIndex(k)
                  THEN Cardinality({i \in 1..n : /\ IsIndex(o.props[i].k)
                                                 /\ IndexNum(o.props[i].k) < IndexNum(k)})
                  ELSE n
       IN [o EXCEPT !.props = SubSeq(o.props, 1, pos) \o <<[k |-> k, v |-> v]>>
                                \o SubSeq(o.props, pos + 1, n)]

\* delete o[k]
DeleteProperty(o, k) ==
  [o EXCEPT !.props = SelectSeq(o.props, LAMBDA e : e.k # k)]

\* Whether an assignment o.__proto__ = v on an object with this prototype
\* reaches the accessor of Object.prototype: no object on the chain has an
\* own property of that name.
RECURSIVE ReachesProtoSetter(_, _)
ReachesProtoSetter(h, p) ==
  IF p = ObjectPrototype THEN TRUE
  ELSE IF ~IsRef(p) THEN FALSE
  ELSE IF HasOwn(h[p.n], "__proto__") THEN FALSE
  ELSE ReachesProtoSetter(h, h[p.n].proto)

\* o[k] = v (OrdinarySet).  An own property is updated; "__proto__" not owned
\* runs the inherited setter, which replaces the prototype when v is an
\* object or null and does nothing otherwise; any other key becomes an own
\* property.
OrdinarySet(h, o, k, v) ==
  IF HasOwn(o, k) THEN CreateDataProperty(o, k, v)
  ELSE IF k = "__proto__" /\ ReachesProtoSetter(h, o.proto)
  THEN IF v.t \in {"object", "null"} THEN [o EXCEPT !.proto = v] ELSE o
  ELSE CreateDataProperty(o, k, v)

\* o[k] for an object reference: own property, else along the prototypes.
RECURSIVE Get(_, _, _)
Get(h, r, k) ==
  IF ~IsRef(r) THEN Undefined
  ELSE IF HasOwn(h[r.n], k) THEN OwnValue(h[r.n], k)
  ELSE IF k = "__proto__" /\ ReachesProtoSetter(h, h[r.n].proto) THEN h[r.n].proto
  ELSE Get(h, h[r.n].proto, k)

(***************************************************************************)
(* The heap is a sequence of objects; an address is an index into it.      *)
(***************************************************************************)
Alloc(h, o) == [heap |-> Append(h, o), ref |-> Ref(Len(h) + 1)]

\* The own enumerable properties a spread ...value copies, in order: none
\* for undefined, null, numbers and booleans, the indexed characters of a
\* string, the own properties of an object.
SpreadSource(h, value) ==
  IF IsRef(value) THEN h[value.n].props
  ELSE IF value.t = "string"
  THEN [i \in 1..Len(Chars(value.s)) |->
          [k |-> IndexNames[i], v |-> Str(Chars(value.s)[i])]]
  ELSE <<>>

\* CopyDataProperties(target, source)
RECURSIVE CopyDataProperties(_, _)
CopyDataProperties(o, ps) ==
  IF ps = <<>> THEN o
  ELSE CopyDataProperties(CreateDataProperty(o, Head(ps).k, Head(ps).v), Tail(ps))

\* const idKey = options?.idKey ?? 'id'
idKeyNoEmptyMutant(h, opts) ==
  LET given == IF IsNullish(opts) THEN Undefined ELSE Get(h, opts, "idKey")
  IN IF IsNullish(given) \/ given.s = "" THEN "id" ELSE given.s

idKeyOf(h, opts) ==
  LET given == IF IsNullish(opts) THEN Undefined ELSE Get(h, opts, "idKey")
  IN IF IsNullish(given) THEN "id" ELSE given.s

\* { ...value, [idKey]: key }: a new object on the heap.
EntryIdFirstMutant(h, value, idKey, key) ==
  Alloc(h, CopyDataProperties(CreateDataProperty(EmptyObject, idKey, Str(key)),
                              SpreadSource(h, value)))

EntryAssignMutant(h, value, idKey, key) ==
  IF IsRef(value)
  THEN [heap |-> [h EXCEPT ![value.n] = CreateDataProperty(@, idKey, Str(key))],
        ref |-> value]
  ELSE Alloc(h, CreateDataProperty(EmptyObject, idKey, Str(key)))

EntryNoSpreadMutant(h, value, idKey, key) ==
  Alloc(h, CreateDataProperty(CreateDataProperty(EmptyObject, "value", value),
                              idKey, Str(key)))

EntryPassThroughMutant(h, value, idKey, key) ==
  IF IsRef(value)
  THEN Alloc(h, CreateDataProperty(CopyDataProperties(EmptyObject, SpreadSource(h, value)),
                                   idKey, Str(key)))
  ELSE [heap |-> h, ref |-> value]

Entry(h, value, idKey, key) ==
  Alloc(h, CreateDataProperty(CopyDataProperties(EmptyObject, SpreadSource(h, value)),
                              idKey, Str(key)))

\* Object.entries(map): the own enumerable [key, value] pairs, in order.
ObjectEntries(h, m) == h[m.n].props

\* Object.keys(map)
ObjectKeys(h, m) == OwnKeys(h[m.n])

\* .map(([key, value]) => [key, { ...value, [idKey]: key }])
RECURSIVE MapEntries(_, _, _)
MapEntries(h, entries, idKey) ==
  IF entries = <<>> THEN [heap |-> h, pairs |-> <<>>]
  ELSE LET e == Entry(h, Head(entries).v, idKey, Head(entries).k)
           rest == MapEntries(e.heap, Tail(entries), idKey)
       IN [heap |-> rest.heap,
           pairs |-> <<[k |-> Head(entries).k, v |-> e.ref]>> \o rest.pairs]

\* Object.fromEntries(pairs): CreateDataProperty for each pair on a new object.
RECURSIVE FromEntriesInto(_, _)
FromEntriesInto(o, pairs) ==
  IF pairs = <<>> THEN o
  ELSE FromEntriesInto(CreateDataProperty(o, Head(pairs).k, Head(pairs).v), Tail(pairs))

RECURSIVE FromEntriesAssignMutant(_, _, _)
FromEntriesAssignMutant(h, o, pairs) ==
  IF pairs = <<>> THEN o
  ELSE FromEntriesAssignMutant(h, OrdinarySet(h, o, Head(pairs).k, Head(pairs).v),
                               Tail(pairs))

ObjectFromEntriesAssignMutant(h, pairs) ==
  Alloc(h, FromEntriesAssignMutant(h, EmptyObject, pairs))

ObjectFromEntries(h, pairs) == Alloc(h, FromEntriesInto(EmptyObject, pairs))

Thrown(h) == [status |-> "thrown", v |-> Undefined, heap |-> h]
Returned(a) == [status |-> "returned", v |-> a.ref, heap |-> a.heap]

\* src/makeKeyedData.ts.  Object.entries throws a TypeError for undefined and
\* null.
makeKeyedData(h, m, opts) ==
  IF IsNullish(m) THEN Thrown(h)
  ELSE LET idKey == idKeyOf(h, opts)
           mapped == MapEntries(h, ObjectEntries(h, m), idKey)
       IN Returned(ObjectFromEntries(mapped.heap, mapped.pairs))

\* The reducer of src/unnamed/part_000, applied to the keys from the left:
\* value = map[key]; acc[key] = { ...value, [idKey]: key }; return acc.
RECURSIVE Reduce(_, _, _, _, _)
Reduce(h, m, keys, idKey, acc) ==
  IF keys = <<>> THEN [heap |-> h, acc |-> acc]
  ELSE LET key == Head(keys)
           value == Get(h, m, key)
           e == Entry(h, value, idKey, key)
       IN Reduce(e.heap, m, Tail(keys), idKey, OrdinarySet(e.heap, acc, key, e.ref))

\* src/unnamed/part_000.  Object.keys throws a TypeError for undefined and
\* null.
makeKeyedDataReduce(h, m, opts) ==
  IF IsNullish(m) THEN Thrown(h)
  ELSE LET idKey == idKeyOf(h, opts)
           r == Reduce(h, m, ObjectKeys(h, m), idKey, EmptyObject)
       IN Returned(Alloc(r.heap, r.acc))

(***************************************************************************)
(* Inputs.  Address 1 holds an object that input values may refer to from  *)
(* a field; the values of the mapping, the mapping and the options object  *)
(* follow.                                                                 *)
(***************************************************************************)
NestedObject == [props |-> <<[k |-> "deep", v |-> Num(1)]>>, proto |-> ObjectPrototype]

KeyNames == {"foo", "1", "__proto__"}

ObjectValue(ps) == [obj |-> TRUE, props |-> ps, v |-> Undefined]
PrimitiveValue(x) == [obj |-> FALSE, props |-> <<>>, v |-> x]

ObjectValues ==
  { ObjectValue(<<>>),
    ObjectValue(<<[k |-> "name", v |-> Str("Foo")]>>),
    ObjectValue(<<[k |-> "id", v |-> Str("old")], [k |-> "name", v |-> Str("Foo")]>>),
    ObjectValue(<<[k |-> "name", v |-> Str("Bar")], [k |-> "baz", v |-> Num(7)]>>),
    ObjectValue(<<[k |-> "child", v |-> Ref(1)]>>) }

PrimitiveValues ==
  { PrimitiveValue(Undefined), PrimitiveValue(Null), PrimitiveValue(Str("ab")),
    PrimitiveValue(Str("")), PrimitiveValue(Num(7)), PrimitiveValue(Bool(TRUE)) }

InputValues == ObjectValues \cup PrimitiveValues

\* options: omitted, {} or { idKey: ... }
NoIdKey == "(none)"
OptionChoices == {"(omitted)", NoIdKey, "baz", "", "0", "__proto__"}

KeySeqs ==
  UNION { { ks \in [1..m -> KeyNames] : \A i, j \in 1..m : i # j => ks[i] # ks[j] }
          : m \in 0..MaxKeys }

RECURSIVE BuildMap(_, _, _, _, _)
BuildMap(h, ks, vs, i, m) ==
  IF i > Len(ks) THEN Alloc(h, m)
  ELSE IF vs[i].obj
  THEN LET a == Alloc(h, [props |-> vs[i].props, proto |-> ObjectPrototype])
       IN BuildMap(a.heap, ks, vs, i + 1, CreateDataProperty(m, ks[i], a.ref))
  ELSE BuildMap(h, ks, vs, i + 1, CreateDataProperty(m, ks[i], vs[i].v))

BuildOptions(h, oc) ==
  IF oc = "(omitted)" THEN [heap |-> h, ref |-> Undefined]
  ELSE IF oc = NoIdKey THEN Alloc(h, EmptyObject)
  ELSE Alloc(h, CreateDataProperty(EmptyObject, "idKey", Str(oc)))

NotCalled == [status |-> "none", v |-> Undefined]

InitWith(ks, vs, oc) ==
  LET m == BuildMap(<<NestedObject>>, ks, vs, 1, EmptyObject)
      o == BuildOptions(m.heap, oc)
  IN /\ heap = o.heap
     /\ map = m.ref
     /\ options = o.ref
     /\ result = NotCalled
     /\ resultReduce = NotCalled
     /\ again = NotCalled
     /\ writes = 0

InitNullish(m, oc) ==
  LET o == BuildOptions(<<NestedObject>>, oc)
  IN /\ heap = o.heap
     /\ map = m
     /\ options = o.ref
     /\ result = NotCalled
     /\ resultReduce = NotCalled
     /\ again = NotCalled
     /\ writes = 0

Init ==
  \/ \E ks \in KeySeqs : \E vs \in [1..Len(ks) -> InputValues] :
       \E oc \in OptionChoices : InitWith(ks, vs, oc)
  \/ \E m \in {Undefined, Null} : \E oc \in OptionChoices : InitNullish(m, oc)

(***************************************************************************)
(* Calls.                                                                  *)
(***************************************************************************)
Outcome(r) == [status |-> r.status, v |-> r.v]

\* makeKeyedData()(map, options) of src/makeKeyedData.ts
CallMakeKeyedData ==
  /\ result.status = "none"
  /\ writes = 0
  /\ LET r == makeKeyedData(heap, map, options)
     IN /\ heap' = r.heap
        /\ result' = Outcome(r)
  /\ UNCHANGED <<map, options, resultReduce, again, writes>>

\* makeKeyedData()(map, options) of src/unnamed/part_000
CallMakeKeyedDataReduce ==
  /\ resultReduce.status = "none"
  /\ writes = 0
  /\ LET r == makeKeyedDataReduce(heap, map, options)
     IN /\ heap' = r.heap
        /\ resultReduce' = Outcome(r)
  /\ UNCHANGED <<map, options, result, again, writes>>

\* makeKeyedData()(result, options): the function applied to its own result
CallAgain ==
  /\ result.status = "returned"
  /\ again.status = "none"
  /\ writes = 0
  /\ LET r == makeKeyedData(heap, result.v, options)
     IN /\ heap' = r.heap
        /\ again' = Outcome(r)
  /\ UNCHANGED <<map, options, result, resultReduce, writes>>

Next == CallMakeKeyedData \/ CallMakeKeyedDataReduce \/ CallAgain

Spec == Init /\ [][Next]_vars

(***************************************************************************)
(* Observations of a state, read off the heap.                             *)
(***************************************************************************)
\* The identifier field name the caller asked for.
ExpectedField ==
  IF IsRef(options) /\ HasOwn(heap[options.n], "idKey")
  THEN OwnValue(heap[options.n], "idKey").s
  ELSE "id"

M == heap[map.n]
Res == heap[result.v.n]
InputOf(k) == OwnValue(M, k)
ResultOf(k) == OwnValue(Res, k)
Fields(v) == heap[v.n]

AllObjectValues == \A k \in KeySet(M) : IsRef(InputOf(k))
Malformed == IsRef(map) /\ \E k \in KeySet(M) : ~IsRef(InputOf(k))

\* result[k] is an object whose field f holds the key k
HoldsKey(k) ==
  /\ HasOwn(Res, k)
  /\ IsRef(ResultOf(k))
  /\ HasOwn(Fields(ResultOf(k)), ExpectedField)
  /\ OwnValue(Fields(ResultOf(k)), ExpectedField) = Str(k)

\* C1: with object values, result[k][f] = k for every key k, f being the
\* idKey supplied (the empty string included) and "id" when none is.
C1_IdentifierIsKey ==
  (result.status = "returned" /\ AllObjectValues) =>
    \A k \in KeySet(M) : HoldsKey(k)

C1_Witness ==
  /\ result.status = "returned"
  /\ AllObjectValues
  /\ Len(M.props) = 2
  /\ ExpectedField = ""
  /\ \A k \in KeySet(M) : HoldsKey(k)

C3_InjectedWins ==
  result.status = "returned" =>
    \A k \in KeySet(M) :
      (IsRef(InputOf(k)) /\ HasOwn(Fields(InputOf(k)), ExpectedField)) => HoldsKey(k)

C3_Witness ==
  /\ result.status = "returned"
  /\ \E k \in KeySet(M) :
       /\ IsRef(InputOf(k))
       /\ HasOwn(Fields(InputOf(k)), ExpectedField)
       /\ OwnValue(Fields(InputOf(k)), ExpectedField) # Str(k)
       /\ HoldsKey(k)

\* C4: the keys of the result are the keys of M, whatever strings they are;
\* the empty mapping gives the empty mapping.
C4_SameKeys ==
  result.status = "returned" => KeySet(Res) = KeySet(M)

C4_Witness ==
  /\ result.status = "returned"
  /\ "__proto__" \in KeySet(M)
  /\ Len(M.props) = 2
  /\ KeySet(Res) = KeySet(M)

\* C5: a call changes neither the mapping, nor any of its values, nor the
\* options.
InputAddrs ==
  (IF IsRef(map)
   THEN {map.n} \cup {InputOf(k).n : k \in {g \in KeySet(M) : IsRef(InputOf(g))}}
   ELSE {})
  \cup (IF IsRef(options) THEN {options.n} ELSE {})

C5_ArgumentsUnchanged ==
  [][(result' # result \/ resultReduce' # resultReduce) =>
       /\ map' = map
       /\ options' = options
       /\ \A a \in InputAddrs : heap'[a] = heap[a]]_vars

C5_Witness ==
  /\ result.status = "returned"
  /\ resultReduce.status = "returned"
  /\ IsRef(options)
  /\ \E k \in KeySet(M) :
       /\ IsRef(InputOf(k))
       /\ ~HasOwn(Fields(InputOf(k)), ExpectedField)
       /\ HoldsKey(k)

\* C7: applying the function to its result, with the same options, gives a
\* mapping equal to that result: same keys, same fields, same values.
Again == heap[again.v.n]

C7_FixedPoint ==
  (result.status = "returned" /\ again.status # "none") =>
    /\ again.status = "returned"
    /\ OwnKeys(Again) = OwnKeys(Res)
    /\ \A k \in KeySet(Res) :
         /\ IsRef(OwnValue(Again, k))
         /\ Fields(OwnValue(Again, k)).props = Fields(ResultOf(k)).props

C7_Witness ==
  /\ again.status = "returned"
  /\ Len(Res.props) = 2
  /\ AllObjectValues
  /\ \E k \in KeySet(Res) :
       /\ OwnValue(Again, k) # ResultOf(k)
       /\ Len(Fields(ResultOf(k)).props) = 3

\* C8 as stated: a value that is not an object makes the call raise an error.
C8_MalformedRaises ==
  (result.status # "none" /\ Malformed) => result.status = "thrown"

\* C8, amended: a value that is not an object raises no error; the call
\* returns a mapping with every key of M, each result[k] an object whose
\* field f holds k.
C8_MalformedReturnsWhole ==
  (result.status # "none" /\ Malformed) =>
    /\ result.status = "returned"
    /\ KeySet(Res) = KeySet(M)
    /\ \A k \in KeySet(M) : HoldsKey(k)

C8_Witness ==
  /\ result.status = "returned"
  /\ Len(M.props) = 2
  /\ \E k \in KeySet(M) : InputOf(k) = Null
  /\ \E k \in KeySet(M) : InputOf(k) = Str("ab")
  /\ \A k \in KeySet(M) : HoldsKey(k)

\* C9: for a value that is null, undefined or a primitive, the call raises
\* an error or result[k] is exactly { [f]: k }.
C9_NonObjectIsEmpty ==
  result.status # "none" =>
    \/ result.status = "thrown"
    \/ \A k \in KeySet(M) : ~IsRef(InputOf(k)) =>
         /\ HasOwn(Res, k)
         /\ IsRef(ResultOf(k))
         /\ Fields(ResultOf(k)).props = <<[k |-> ExpectedField, v |-> Str(k)]>>

\* C10: the two implementations return equal mappings: the same own keys in
\* the same order, and under each key the same fields with the same values.
Red == heap[resultReduce.v.n]

C10_ImplementationsAgree ==
  (result.status # "none" /\ resultReduce.status # "none") =>
    /\ result.status = resultReduce.status
    /\ result.status = "returned" =>
         /\ OwnKeys(Red) = OwnKeys(Res)
         /\ \A k \in KeySet(Res) :
              /\ IsRef(OwnValue(Red, k))
              /\ Fields(OwnValue(Red, k)).props = Fields(ResultOf(k)).props

(***************************************************************************)
(* Writes by the caller after the call: a field or key of the result, of a *)
(* result[k], of the mapping or of an M[k] is set, added or deleted.  The  *)
(* inputs are mappings of objects.                                         *)
(***************************************************************************)
WriteNames == {"name", "id", "foo", "extra"}
WriteValues == {Str("new")}
MutationOptions == {"(omitted)", "baz"}
MutationValues ==
  { ObjectValue(<<[k |-> "name", v |-> Str("Foo")]>>),
    ObjectValue(<<[k |-> "id", v |-> Str("old")], [k |-> "child", v |-> Ref(1)]>>) }

InitMutation ==
  \E ks \in KeySeqs : \E vs \in [1..Len(ks) -> MutationValues] :
    \E oc \in MutationOptions : InitWith(ks, vs, oc)

\* The mapping and its values
MapAddrs ==
  {map.n} \cup {InputOf(k).n : k \in {g \in KeySet(M) : IsRef(InputOf(g))}}

\* The result and its values
ResultAddrs ==
  {result.v.n} \cup {ResultOf(k).n : k \in {g \in KeySet(Res) : IsRef(ResultOf(g))}}

\* target[name] = v
SetField(a, name, v) ==
  /\ heap' = [heap EXCEPT ![a] = OrdinarySet(heap, @, name, v)]
  /\ writes' = writes + 1
  /\ UNCHANGED <<map, options, result, resultReduce, again>>

\* delete target[name]
DeleteField(a, name) ==
  /\ HasOwn(heap[a], name)
  /\ heap' = [heap EXCEPT ![a] = DeleteProperty(@, name)]
  /\ writes' = writes + 1
  /\ UNCHANGED <<map, options, result, resultReduce, again>>

WriteResult ==
  /\ result.status = "returned"
  /\ writes < MaxWrites
  /\ \E a \in ResultAddrs : \E name \in WriteNames :
       \/ \E v \in WriteValues : SetField(a, name, v)
       \/ DeleteField(a, name)

WriteInput ==
  /\ result.status = "returned"
  /\ writes < MaxWrites
  /\ \E a \in MapAddrs : \E name \in WriteNames :
       \/ \E v \in WriteValues : SetField(a, name, v)
       \/ DeleteField(a, name)

NextMutation == CallMakeKeyedData \/ WriteResult \/ WriteInput

SpecMutation == InitMutation /\ [][NextMutation]_vars

\* C6: the result and every result[k] are new objects: a write on the
\* result or on a result[k] changes neither M nor any M[k], a write on M or
\* on an M[k] changes neither the result nor any result[k], and a field of
\* M[k] that holds an object holds the same object in result[k].
C6_Independent ==
  /\ [][/\ WriteResult => \A a \in MapAddrs : heap'[a] = heap[a]
        /\ WriteInput => \A a \in ResultAddrs : heap'[a] = heap[a]]_vars
  /\ [](result.status = "returned" =>
          /\ ResultAddrs \cap MapAddrs = {}
          /\ writes = 0 =>
               \A k \in KeySet(M) : \A g \in KeySet(Fields(InputOf(k))) :
                 IsRef(OwnValue(Fields(InputOf(k)), g)) =>
                   /\ HasOwn(Res, k)
                   /\ IsRef(ResultOf(k))
                   /\ HasOwn(Fields(ResultOf(k)), g)
                   /\ OwnValue(Fields(ResultOf(k)), g) = OwnValue(Fields(InputOf(k)), g))

C6_Witness ==
  /\ result.status = "returned"
  /\ writes = 1
  /\ \E k \in KeySet(M) :
       /\ HasOwn(Res, k)
       /\ IsRef(ResultOf(k))
       /\ HasOwn(Fields(InputOf(k)), "name")
       /\ OwnValue(Fields(InputOf(k)), "name") = Str("Foo")
       /\ HasOwn(Fields(ResultOf(k)), "name")
       /\ OwnValue(Fields(ResultOf(k)), "name") = Str("new")

=============================================================================
